---- MODULE Spec2Model ----
(***************************************************************************)
(* Session lifecycle and event fan-out of tiktok_backend_server.js.        *)
(*                                                                         *)
(* The source file holds two listings of the server; the model follows the *)
(* first one (lines 1-296), which is the one with the Socket.IO server.    *)
(*                                                                         *)
(* The server is single threaded: every HTTP handler, every promise        *)
(* callback and every upstream event listener runs to completion, so each  *)
(* of them is one atomic action.  The upstream library object              *)
(* (WebcastPushConnection) is outside the repository; it is the            *)
(* environment: it resolves or rejects connect() once, emits events on a   *)
(* connected session, and disconnect() may return quietly, notify its      *)
(* 'disconnected' listeners from inside the call, or throw.                *)
(***************************************************************************)
EXTENDS Integers, Sequences, FiniteSets, TLC

VARIABLES
    activeConnections,  \* the Map username -> connection object (line 29)
    nextSession,        \* number of WebcastPushConnection objects constructed
    owner,              \* owner[s]: the username captured by s's closures
    up,                 \* up[s]: what the upstream library is doing for s
    cb,                 \* cb[s]: position of the code waiting for connect():
                        \* start-chat's .then/.catch ("pending", "then", "catch")
                        \* or check-live's await ("await", "live", "notlive")
    listeners,          \* listeners[s][k]: listeners attached with .on(k, ..)
    startResponse,      \* startResponse[s]: HTTP response of the request that built s
    statusCount,        \* statusCount[s][type]: 'tiktok-status' events of that
                        \* type emitted so far by the callbacks of s
    last                \* the step just taken: the request or callback, the HTTP
                        \* response, the io.emit calls (out) and the disconnect()
                        \* calls (calls) it made, in order

vars == <<activeConnections, nextSession, owner, up, cb, listeners,
          startResponse, statusCount, last>>

----------------------------------------------------------------------------
(* Bounds of the model *)

MaxSessions == 2

----------------------------------------------------------------------------
(* Values *)

Users == {"alice", "carol"}
\* req.body.username may be missing or empty (falsy)
Usernames == Users \cup {""}
Sessions == 1..MaxSessions
\* Map.get / Map.has of an absent key
NoSession == 0
Undefined == "undefined"

FanoutKinds == {"chat", "member", "like", "gift", "share", "follow"}
TerminalKinds == {"streamEnd", "disconnected"}
EventKinds == FanoutKinds \cup TerminalKinds

\* upstream payloads: data.uniqueId and the kind-specific field
Payloads == {[uniqueId |-> "bob", value |-> "hey"]}
\* the state connect() resolves with: roomInfo present or missing
RoomStates == {[hasRoomInfo |-> TRUE, title |-> "Hi", userCount |-> "5"],
               [hasRoomInfo |-> FALSE, title |-> Undefined, userCount |-> Undefined]}

\* state.roomInfo?.title, state.roomInfo?.userCount
RoomTitle(state) == IF state.hasRoomInfo THEN state.title ELSE Undefined
RoomViewers(state) == IF state.hasRoomInfo THEN state.userCount ELSE Undefined

\* One io.emit.  sess is the connection object whose callback emitted it
\* (not part of the payload; it identifies the attempt).
Event(tag, type, username, sess, title, viewers, text) ==
    [tag |-> tag, type |-> type, username |-> username, sess |-> sess,
     title |-> title, viewers |-> viewers, text |-> text]

StatusEvent(type, username, sess) ==
    Event("tiktok-status", type, username, sess, Undefined, Undefined, Undefined)

ConnectedEvent(username, sess, state) ==
    Event("tiktok-status", "connected", username, sess,
          RoomTitle(state), RoomViewers(state), Undefined)

\* the share listener emitting under the follow tag
FanoutTagShareAsFollow(kind) ==
    CASE kind = "chat"   -> "tiktok-message"
      [] kind = "member" -> "tiktok-join"
      [] kind = "like"   -> "tiktok-like"
      [] kind = "gift"   -> "tiktok-gift"
      [] kind = "share"  -> "tiktok-follow"
      [] kind = "follow" -> "tiktok-follow"

FanoutTag(kind) ==
    CASE kind = "chat"   -> "tiktok-message"
      [] kind = "member" -> "tiktok-join"
      [] kind = "like"   -> "tiktok-like"
      [] kind = "gift"   -> "tiktok-gift"
      [] kind = "share"  -> "tiktok-share"
      [] kind = "follow" -> "tiktok-follow"

FanoutType(kind) ==
    CASE kind = "chat"   -> Undefined
      [] kind = "member" -> "join"
      [] kind = "like"   -> "like"
      [] kind = "gift"   -> "gift"
      [] kind = "share"  -> "share"
      [] kind = "follow" -> "follow"

FanoutText(kind, data) ==
    CASE kind = "chat"   -> data.value
      [] kind = "member" -> "joined"
      [] kind = "like"   -> data.value
      [] kind = "gift"   -> data.value
      [] kind = "share"  -> Undefined
      [] kind = "follow" -> Undefined

FanoutEvent(kind, sess, data) ==
    Event(FanoutTag(kind), FanoutType(kind), data.uniqueId, sess,
          Undefined, Undefined, FanoutText(kind, data))

StatusTypes == {"connected", "error", "ended", "disconnected", "stopped"}
NoData == [uniqueId |-> Undefined, value |-> Undefined]

NoState == [hasRoomInfo |-> FALSE, title |-> Undefined, userCount |-> Undefined]

\* One step: the request or callback (op), the username of the request or
\* of the closure, the connection object concerned, the upstream payload or
\* room state handed to a callback, the HTTP response, the io.emit calls
\* and the disconnect() calls made, in order.
Step(op, username, sess, data, state, result, out, calls) ==
    [op |-> op, username |-> username, sess |-> sess, data |-> data,
     state |-> state, result |-> result, out |-> out, calls |-> calls]

----------------------------------------------------------------------------
(* Initial state: the module has just been loaded *)

Init ==
    /\ activeConnections = [u \in Users |-> NoSession]
    /\ nextSession = 0
    /\ owner = [s \in Sessions |-> ""]
    /\ up = [s \in Sessions |-> "none"]
    /\ cb = [s \in Sessions |-> "none"]
    /\ listeners = [s \in Sessions |-> [k \in EventKinds |-> 0]]
    /\ startResponse = [s \in Sessions |-> "none"]
    /\ statusCount = [s \in Sessions |-> [ty \in StatusTypes |-> 0]]
    /\ last = Step("init", "", NoSession, NoData, NoState, "none", <<>>, <<>>)

----------------------------------------------------------------------------
(* Pieces of the handlers *)

\* n copies of e: one per listener attached for the emitted event
Copies(n, e) == [i \in 1..n |-> e]

\* statusCount after the io.emit calls of out
RECURSIVE Tally(_, _)
Tally(cnt, out) ==
    IF out = <<>> THEN cnt
    ELSE LET e == Head(out) IN
         Tally(IF e.tag = "tiktok-status"
               THEN [cnt EXCEPT ![e.sess][e.type] = @ + 1] ELSE cnt,
               Tail(out))

\* a start-chat that never finds the record
HasConnectionNever(username) == FALSE

\* activeConnections.has(username)
HasConnection(username) == activeConnections[username] # NoSession

\* activeConnections.set(username, tiktokConnection)
SetConnection(username, s) == [activeConnections EXCEPT ![username] = s]

\* activeConnections.clear() in place of delete
DeleteConnectionAll(username) == [u \in Users |-> NoSession]

\* activeConnections.delete(username)
DeleteConnection(username) == [activeConnections EXCEPT ![username] = NoSession]

\* a start-chat without the 'disconnected' listener
AttachListenersButLast(s) ==
    [listeners EXCEPT ![s] = [k \in EventKinds |-> IF k = "disconnected" THEN @[k] ELSE @[k] + 1]]

\* the eight tiktokConnection.on(kind, ...) calls of start-chat
AttachListeners(s) ==
    [listeners EXCEPT ![s] = [k \in EventKinds |-> @[k] + 1]]

\* a start-chat that awaits connect() before it answers
StartChatAwaits == "none"

\* res.json({success: true, message: 'Conexion iniciada', username})
StartChatResponse == "starting"

\* a .then that only logs
ThenEmitsNothing(s, state) == <<>>

\* .then: io.emit('tiktok-status', {type: 'connected', username, roomInfo})
ThenEmits(s, state) == <<ConnectedEvent(owner[s], s, state)>>

\* a .catch that forgets the delete
CatchRegistryKeeps(s) == activeConnections

\* .catch: activeConnections.delete(username)
CatchRegistry(s) == DeleteConnection(owner[s])

\* .catch: io.emit('tiktok-status', {type: 'error', username, error})
CatchEmits(s) == <<StatusEvent("error", owner[s], s)>>

\* listeners that forget the delete
TerminalRegistryKeeps(s, kind) == activeConnections

\* the 'streamEnd' / 'disconnected' listeners: activeConnections.delete(username)
TerminalRegistry(s, kind) ==
    IF listeners[s][kind] > 0 THEN DeleteConnection(owner[s]) ELSE activeConnections

\* the 'streamEnd' / 'disconnected' listeners: io.emit('tiktok-status', {type, username})
TerminalEmits(s, kind) ==
    Copies(listeners[s][kind],
           StatusEvent(IF kind = "streamEnd" THEN "ended" ELSE "disconnected",
                       owner[s], s))

\* the listeners of a fan-out kind: io.emit(tag, message)
FanoutEmits(s, kind, data) == Copies(listeners[s][kind], FanoutEvent(kind, s, data))

\* stop-chat, if (connection): connection.disconnect()
StopCalls(connection) == <<connection>>

\* a stop-chat that forgets the delete
StopRegistryKeeps(username) == activeConnections

\* stop-chat, if (connection): activeConnections.delete(username)
StopRegistry(username) == DeleteConnection(username)

\* stop-chat, if (connection): io.emit('tiktok-status', {type: 'stopped', username})
StopEmits(username, connection) == <<StatusEvent("stopped", username, connection)>>

\* a stop-chat that calls disconnect() before it tests the connection
StopAbsentCallsAnyway(username) == <<activeConnections[username]>>

\* stop-chat, else branch: nothing is emitted, nothing is called
StopAbsentEmits(username) == <<>>
StopAbsentCalls(username) == <<>>

\* a check-live that forgets to validate the username
CheckLiveMissingNever(username) == FALSE

\* check-live: if (!username)
CheckLiveMissing(username) == username = ""

\* a check-live that leaves its connection open
CheckLiveCallsNone(s) == <<>>

\* check-live after the await: tiktokConnection.disconnect()
CheckLiveCalls(s) == <<s>>

----------------------------------------------------------------------------
(* POST /api/check-live, up to the await.  The connection is local to the   *)
(* handler: it gets no listener and is not put into activeConnections.      *)
(* A constructor that throws is caught by the handler's try/catch.          *)

CheckLive(username, ctor) ==
    IF CheckLiveMissing(username)
    THEN /\ last' = Step("check", username, NoSession, NoData, NoState, "400", <<>>, <<>>)
         /\ UNCHANGED <<activeConnections, nextSession, owner, up, cb, listeners,
                        startResponse, statusCount>>
    ELSE IF ctor = "throws"
    THEN /\ last' = Step("check", username, NoSession, NoData, NoState, "notlive", <<>>, <<>>)
         /\ UNCHANGED <<activeConnections, nextSession, owner, up, cb, listeners,
                        startResponse, statusCount>>
    ELSE /\ nextSession < MaxSessions
         /\ LET s == nextSession + 1 IN
            /\ nextSession' = s
            /\ owner' = [owner EXCEPT ![s] = username]
            /\ up' = [up EXCEPT ![s] = "connecting"]
            /\ cb' = [cb EXCEPT ![s] = "await"]
            /\ last' = Step("check", username, s, NoData, NoState, "none", <<>>, <<>>)
         /\ UNCHANGED <<activeConnections, listeners, startResponse, statusCount>>

(* check-live resumed after await connect(): answers isLive: true, then     *)
(* calls disconnect(); the answer is out before disconnect() can throw.     *)
(* disconnect() closes the connected connection (it has no listener to      *)
(* notify) unless it throws, which leaves the connection open.              *)
CheckLiveResumed(s, outcome) ==
    /\ up[s] = "connecting"
    /\ cb[s] = "await"
    /\ up' = [up EXCEPT ![s] = IF outcome = "returns" /\ CheckLiveCalls(s) # <<>>
                               THEN "closed" ELSE "connected"]
    /\ cb' = [cb EXCEPT ![s] = "live"]
    /\ last' = Step("checkResumed", owner[s], s, NoData, NoState, "live",
                    <<>>, CheckLiveCalls(s))
    /\ UNCHANGED <<activeConnections, nextSession, owner, listeners, startResponse,
                   statusCount>>

(* check-live's await connect() threw: the catch answers isLive: false *)
CheckLiveRejected(s) ==
    /\ up[s] = "connecting"
    /\ cb[s] = "await"
    /\ up' = [up EXCEPT ![s] = "failed"]
    /\ cb' = [cb EXCEPT ![s] = "notlive"]
    /\ last' = Step("checkRejected", owner[s], s, NoData, NoState, "notlive", <<>>, <<>>)
    /\ UNCHANGED <<activeConnections, nextSession, owner, listeners, startResponse,
                   statusCount>>

----------------------------------------------------------------------------
(* POST /api/start-chat.  ctor is the outcome of new WebcastPushConnection. *)

StartChat(username, ctor) ==
    IF username = ""
    THEN /\ last' = Step("start", username, NoSession, NoData, NoState, "400", <<>>, <<>>)
         /\ UNCHANGED <<activeConnections, nextSession, owner, up, cb, listeners,
                        startResponse, statusCount>>
    ELSE IF HasConnection(username)
    THEN /\ last' = Step("start", username, NoSession, NoData, NoState, "already", <<>>, <<>>)
         /\ UNCHANGED <<activeConnections, nextSession, owner, up, cb, listeners,
                        startResponse, statusCount>>
    ELSE IF ctor = "throws"
    THEN /\ last' = Step("start", username, NoSession, NoData, NoState, "500", <<>>, <<>>)
         /\ UNCHANGED <<activeConnections, nextSession, owner, up, cb, listeners,
                        startResponse, statusCount>>
    ELSE /\ nextSession < MaxSessions
         /\ LET s == nextSession + 1 IN
            /\ nextSession' = s
            /\ owner' = [owner EXCEPT ![s] = username]
            /\ activeConnections' = SetConnection(username, s)
            /\ up' = [up EXCEPT ![s] = "connecting"]
            /\ cb' = [cb EXCEPT ![s] = "pending"]
            /\ listeners' = AttachListeners(s)
            /\ startResponse' = [startResponse EXCEPT ![s] = StartChatResponse]
            /\ last' = Step("start", username, s, NoData, NoState, StartChatResponse,
                            <<>>, <<>>)
         /\ UNCHANGED statusCount

(* connect() resolved with state: the .then callback *)
ConnectThen(s, state) ==
    /\ up[s] = "connecting"
    /\ cb[s] = "pending"
    /\ up' = [up EXCEPT ![s] = "connected"]
    /\ cb' = [cb EXCEPT ![s] = "then"]
    /\ statusCount' = Tally(statusCount, ThenEmits(s, state))
    /\ last' = Step("then", owner[s], s, NoData, state, "none", ThenEmits(s, state), <<>>)
    /\ UNCHANGED <<activeConnections, nextSession, owner, listeners, startResponse>>

(* connect() rejected: the .catch callback *)
ConnectCatch(s) ==
    /\ up[s] = "connecting"
    /\ cb[s] = "pending"
    /\ up' = [up EXCEPT ![s] = "failed"]
    /\ cb' = [cb EXCEPT ![s] = "catch"]
    /\ activeConnections' = CatchRegistry(s)
    /\ statusCount' = Tally(statusCount, CatchEmits(s))
    /\ last' = Step("catch", owner[s], s, NoData, NoState, "none", CatchEmits(s), <<>>)
    /\ UNCHANGED <<nextSession, owner, listeners, startResponse>>

(* The upstream emits chat, member, like, gift, share or follow on s *)
UpstreamEvent(s, kind, data) ==
    /\ kind \in FanoutKinds
    /\ up[s] = "connected"
    /\ last' = Step(kind, owner[s], s, data, NoState, "none", FanoutEmits(s, kind, data), <<>>)
    /\ UNCHANGED <<activeConnections, nextSession, owner, up, cb, listeners,
                   startResponse, statusCount>>

(* The upstream emits streamEnd on s *)
StreamEnd(s) ==
    /\ up[s] = "connected"
    /\ up' = [up EXCEPT ![s] = "ended"]
    /\ activeConnections' = TerminalRegistry(s, "streamEnd")
    /\ statusCount' = Tally(statusCount, TerminalEmits(s, "streamEnd"))
    /\ last' = Step("streamEnd", owner[s], s, NoData, NoState, "none",
                    TerminalEmits(s, "streamEnd"), <<>>)
    /\ UNCHANGED <<nextSession, owner, cb, listeners, startResponse>>

(* The upstream emits disconnected on s, on its own *)
Disconnected(s) ==
    /\ up[s] \in {"connected", "ended"}
    /\ up' = [up EXCEPT ![s] = "closed"]
    /\ activeConnections' = TerminalRegistry(s, "disconnected")
    /\ statusCount' = Tally(statusCount, TerminalEmits(s, "disconnected"))
    /\ last' = Step("disconnected", owner[s], s, NoData, NoState, "none",
                    TerminalEmits(s, "disconnected"), <<>>)
    /\ UNCHANGED <<nextSession, owner, cb, listeners, startResponse>>

(* POST /api/stop-chat.  outcome is what connection.disconnect() does:      *)
(* "returns" (quietly; a promise it returns is not awaited, so a later       *)
(* rejection changes nothing here), "notifies" (emits 'disconnected' to its *)
(* listeners from inside the call, then returns) or "throws".               *)
StopChat(username, outcome) ==
    IF username = ""
    THEN /\ last' = Step("stop", username, NoSession, NoData, NoState, "400", <<>>, <<>>)
         /\ UNCHANGED <<activeConnections, nextSession, owner, up, cb, listeners,
                        startResponse, statusCount>>
    ELSE LET connection == activeConnections[username] IN
    IF connection = NoSession
    THEN /\ last' = Step("stop", username, NoSession, NoData, NoState, "noactive",
                         StopAbsentEmits(username), StopAbsentCalls(username))
         /\ statusCount' = Tally(statusCount, StopAbsentEmits(username))
         /\ UNCHANGED <<activeConnections, nextSession, owner, up, cb, listeners,
                        startResponse>>
    ELSE /\ CASE outcome = "throws" ->
                 \* the exception leaves the handler: the framework answers 500
                 /\ last' = Step("stop", username, connection, NoData, NoState, "500",
                                 <<>>, StopCalls(connection))
                 /\ UNCHANGED <<activeConnections, up, statusCount>>
              [] outcome = "returns" ->
                 /\ activeConnections' = StopRegistry(username)
                 /\ statusCount' = Tally(statusCount, StopEmits(username, connection))
                 /\ last' = Step("stop", username, connection, NoData, NoState, "stopped",
                                 StopEmits(username, connection), StopCalls(connection))
                 /\ UNCHANGED up
              [] outcome = "notifies" ->
                 /\ up[connection] \in {"connected", "ended"}
                 /\ up' = [up EXCEPT ![connection] = "closed"]
                 /\ activeConnections' = StopRegistry(username)
                 /\ LET out == TerminalEmits(connection, "disconnected")
                               \o StopEmits(username, connection) IN
                    /\ statusCount' = Tally(statusCount, out)
                    /\ last' = Step("stop", username, connection, NoData, NoState, "stopped",
                                    out, StopCalls(connection))
         /\ UNCHANGED <<nextSession, owner, cb, listeners, startResponse>>

----------------------------------------------------------------------------

Next ==
    \/ \E u \in Usernames, ctor \in {"ok", "throws"} : StartChat(u, ctor)
    \/ \E u \in Usernames, outcome \in {"returns", "notifies", "throws"} : StopChat(u, outcome)
    \/ \E s \in Sessions, state \in RoomStates : ConnectThen(s, state)
    \/ \E s \in Sessions : ConnectCatch(s)
    \/ \E s \in Sessions, k \in FanoutKinds, d \in Payloads : UpstreamEvent(s, k, d)
    \/ \E s \in Sessions : StreamEnd(s)
    \/ \E s \in Sessions : Disconnected(s)
    \/ \E u \in Usernames, ctor \in {"ok", "throws"} : CheckLive(u, ctor)
    \/ \E s \in Sessions, outcome \in {"returns", "throws"} : CheckLiveResumed(s, outcome)
    \/ \E s \in Sessions : CheckLiveRejected(s)

Spec == Init /\ [][Next]_vars

\* The upstream settles every connect() it was asked for: the promise of a
\* start-chat connection is resolved or rejected, and its callback runs.
ConnectSettles(s) == (\E state \in RoomStates : ConnectThen(s, state)) \/ ConnectCatch(s)

SpecFair == Spec /\ \A s \in Sessions : WF_vars(ConnectSettles(s))

----------------------------------------------------------------------------
(* Properties *)

\* connection objects built by start-chat
Started == {s \in Sessions : cb[s] \in {"pending", "then", "catch"}}

\* connection objects built by check-live
Checked == {s \in Sessions : cb[s] \in {"await", "live", "notlive"}}

\* occurrences of the status event type for connection s in out
RECURSIVE CountIn(_, _, _)
CountIn(out, type, s) ==
    IF out = <<>> THEN 0
    ELSE (IF Head(out).tag = "tiktok-status" /\ Head(out).type = type /\ Head(out).sess = s
          THEN 1 ELSE 0) + CountIn(Tail(out), type, s)

\* C1: while a record for id is in the Registry (connect resolved or not), a
\* start-chat for id answers "already active", builds no connection, attaches
\* no listener and leaves the Registry as it is; so a connection that is still
\* registered is the newest one built for its username.
C1_StartIsIdempotent ==
    /\ [][(/\ last'.op = "start"
           /\ last'.username \in Users
           /\ activeConnections[last'.username] # NoSession)
          => (/\ last'.result = "already"
              /\ nextSession' = nextSession
              /\ listeners' = listeners
              /\ activeConnections' = activeConnections
              /\ last'.out = <<>>)]_vars
    /\ [](\A s \in Started : activeConnections[owner[s]] = s
              => \A s2 \in Started : owner[s2] = owner[s] => s2 <= s)

C1_Witness ==
    /\ last.op = "start"
    /\ last.result = "already"
    /\ cb[activeConnections[last.username]] = "pending"

\* C2 (as claimed): after the .then callback of a connection, the Registry
\* holds that connection under its username, and exactly one status:connected
\* with the reported title and viewer count was broadcast for it.
C2_ConnectedIsRegistered ==
    last.op = "then"
    => /\ activeConnections[last.username] = last.sess
       /\ statusCount[last.sess]["connected"] = 1
       /\ last.out = <<Event("tiktok-status", "connected", last.username, last.sess,
                             RoomTitle(last.state), RoomViewers(last.state), Undefined)>>

\* C3: after the .catch callback of a connection built for id, the Registry
\* has no record for id and exactly one status:error was broadcast for that
\* attempt.
C3_FailureLeavesNoRecord ==
    last.op = "catch"
    => /\ activeConnections[last.username] = NoSession
       /\ last.out = <<StatusEvent("error", last.username, last.sess)>>
       /\ statusCount[last.sess]["error"] = 1

C3_Witness ==
    /\ last.op = "catch"
    /\ statusCount[last.sess]["error"] = 1
    /\ activeConnections[last.username] = NoSession

\* C4 (as claimed): a stop-chat that found a record for id leaves no record
\* for id and broadcast exactly one status:stopped, whatever disconnect() did.
C4_StopAlwaysRemoves ==
    (last.op = "stop" /\ last.sess # NoSession)
    => /\ activeConnections[last.username] = NoSession
       /\ CountIn(last.out, "stopped", last.sess) = 1

\* C5: a stop-chat for an identity without a record answers "no active
\* session", calls disconnect() on nothing, broadcasts nothing and leaves the
\* Registry as it is.
C5_StopAbsentIsNoOp ==
    [][(/\ last'.op = "stop"
        /\ last'.username \in Users
        /\ activeConnections[last'.username] = NoSession)
       => (/\ last'.result = "noactive"
           /\ last'.calls = <<>>
           /\ last'.out = <<>>
           /\ activeConnections' = activeConnections
           /\ statusCount' = statusCount
           /\ up' = up)]_vars

C5_Witness ==
    /\ last.op = "stop"
    /\ last.result = "noactive"
    /\ \A s \in Sessions : owner[s] # last.username
    /\ \E u \in Users : activeConnections[u] # NoSession

\* the upstream delivered the notification kind on s in this step
Notified(s, kind) ==
    IF kind = "streamEnd"
    THEN up[s] = "connected" /\ up'[s] = "ended"
    ELSE up[s] \in {"connected", "ended"} /\ up'[s] = "closed"

StatusOf(kind) == IF kind = "streamEnd" THEN "ended" ELSE "disconnected"

\* C6: every streamEnd or disconnected notification delivered on a connection
\* built by start-chat for id leaves id without a record and broadcasts, in
\* that step, exactly one status event of the matching type (ended or
\* disconnected) for id; when the upstream sends it on its own the step is
\* no request of the Control API.
C6_TerminalNotificationRemoves ==
    [][\A s \in Started : \A kind \in TerminalKinds :
          Notified(s, kind)
          => /\ activeConnections'[owner[s]] = NoSession
             /\ CountIn(last'.out, StatusOf(kind), s) = 1
             /\ statusCount'[s][StatusOf(kind)] = statusCount[s][StatusOf(kind)] + 1
             /\ \A i \in DOMAIN last'.out :
                   last'.out[i].type = StatusOf(kind) => last'.out[i].username = owner[s]
             /\ last'.op \in TerminalKinds
                   => last'.op = kind /\ last'.result = "none" /\ Len(last'.out) = 1]_vars

C6_Witness ==
    /\ last.op = "disconnected"
    /\ statusCount[last.sess]["ended"] = 1
    /\ statusCount[last.sess]["disconnected"] = 1
    /\ activeConnections[last.username] = NoSession

\* the tag each upstream event is broadcast under
ExpectedTag ==
    [chat |-> "tiktok-message", member |-> "tiktok-join", like |-> "tiktok-like",
     gift |-> "tiktok-gift", share |-> "tiktok-share", follow |-> "tiktok-follow"]

\* C7: one upstream emission of chat, member, like, gift, share or follow on a
\* connection wired by start-chat makes, in the same step, exactly one
\* broadcast, under the tag of that event and carrying the emitter's uniqueId;
\* nothing else is broadcast, nothing is kept for later.
C7_OneBroadcastPerEmission ==
    (last.op \in FanoutKinds /\ last.sess \in Started)
    => /\ Len(last.out) = 1
       /\ last.out[1].tag = ExpectedTag[last.op]
       /\ last.out[1].username = last.data.uniqueId
       /\ last.out[1].sess = last.sess

C7_Witness ==
    /\ last.op = "share"
    /\ Len(last.out) = 1
    /\ last.out[1].tag = "tiktok-share"

\* C8 (as claimed): a connection that is no longer the record of its username
\* never becomes Live afterwards (its .then broadcasts no status:connected)
\* and is never registered again.
C8_EndedIsTerminal ==
    [][\A s \in Started :
          activeConnections[owner[s]] # s
          => /\ statusCount'[s]["connected"] = statusCount[s]["connected"]
             /\ (cb'[s] = "then" => cb[s] = "then")
             /\ activeConnections'[owner[s]] # s]_vars

\* C9 (as claimed): a fan-out broadcast is made only for an emission of the
\* connection that is the Registry record of its username.
C9_FanoutOnlyForRegistered ==
    (last.op \in FanoutKinds /\ last.out # <<>>)
    => activeConnections[last.username] = last.sess

\* C10: the start-chat that builds a connection answers "starting" in the
\* step that issues connect(), while the connect is unresolved and before
\* anything is broadcast; that answer is the same whether the connect later
\* succeeds, fails or stays pending, and the callbacks of the connect answer
\* nobody: they make exactly one status broadcast (connected or error).
C10_StartAnswersBeforeConnect ==
    /\ [][(last'.op = "start" /\ nextSession' # nextSession)
          => /\ last'.result = "starting"
             /\ last'.sess = nextSession'
             /\ last'.out = <<>>
             /\ startResponse'[nextSession'] = "starting"
             /\ cb'[nextSession'] = "pending"
             /\ up'[nextSession'] = "connecting"]_vars
    /\ [](\A s \in Started : startResponse[s] = "starting")
    /\ [][\A s \in Started :
             (cb[s] = "pending" /\ cb'[s] # "pending")
             => /\ startResponse' = startResponse
                /\ last'.result = "none"
                /\ Len(last'.out) = 1
                /\ last'.out[1].tag = "tiktok-status"
                /\ last'.out[1].type = (IF cb'[s] = "then" THEN "connected" ELSE "error")
                /\ last'.out[1].username = owner[s]]_vars

C10_Witness ==
    \E s, s2 \in Started :
        /\ cb[s] = "catch"
        /\ cb[s2] = "then"
        /\ startResponse[s] = "starting"
        /\ startResponse[s2] = "starting"

\* connect-outcome broadcasts (connected or error) made so far for s
Outcomes(s) == statusCount[s]["connected"] + statusCount[s]["error"]

\* C11: when the upstream settles every connect, each connection built by an
\* accepted start-chat eventually gets its connect-outcome broadcast, and it
\* gets exactly one: none while the connect is pending, then one connected
\* or one error and never both, also when it was stopped or ended meanwhile.
C11_OneConnectOutcome ==
    /\ [](\A s \in Started :
             /\ Outcomes(s) = (IF cb[s] = "pending" THEN 0 ELSE 1)
             /\ statusCount[s]["connected"] = (IF cb[s] = "then" THEN 1 ELSE 0)
             /\ statusCount[s]["error"] = (IF cb[s] = "catch" THEN 1 ELSE 0))
    /\ \A s \in Sessions : (cb[s] = "pending") ~> (cb[s] # "pending" /\ Outcomes(s) = 1)

C11_Witness ==
    \E s \in Started :
        /\ cb[s] = "then"
        /\ statusCount[s]["stopped"] = 1
        /\ Outcomes(s) = 1

\* C12: check-live never changes the Registry and never broadcasts; its
\* connection is never registered and never wired; disconnect() is called on
\* it once, in the step that answers "is live", and in no other step, and
\* not at all when the answer is "not live"; a registered connection of the
\* same identity is not touched.
C12_CheckLiveLeavesRegistry ==
    /\ [][last'.op \in {"check", "checkResumed", "checkRejected"}
          => /\ activeConnections' = activeConnections
             /\ listeners' = listeners
             /\ statusCount' = statusCount
             /\ last'.out = <<>>
             /\ \A s \in Started : up'[s] = up[s] /\ cb'[s] = cb[s]
             /\ last'.calls = (IF last'.op = "checkResumed" THEN <<last'.sess>> ELSE <<>>)
             /\ (last'.op = "checkResumed") = (last'.result = "live")
             /\ last'.op = "checkRejected" => last'.result = "notlive"]_vars
    /\ [][\A s \in Sessions :
             (s \in Checked \/ cb'[s] = "await")
             => /\ \A u \in Users : activeConnections'[u] # s
                /\ \A k \in EventKinds : listeners'[s][k] = 0
                /\ (\E i \in DOMAIN last'.calls : last'.calls[i] = s)
                      => (cb[s] = "await" /\ cb'[s] = "live")]_vars

C12_Witness ==
    /\ last.op = "checkResumed"
    /\ last.calls = <<last.sess>>
    /\ activeConnections[last.username] # NoSession
    /\ activeConnections[last.username] # last.sess

\* C13: a check-live, start-chat or stop-chat request without a username is
\* answered 400 and changes nothing: no connection is built or disconnected,
\* the Registry is as before, nothing is broadcast.
C13_MissingUsernameChangesNothing ==
    [][(last'.op \in {"check", "start", "stop"} /\ last'.username = "")
       => /\ last'.result = "400"
          /\ last'.out = <<>>
          /\ last'.calls = <<>>
          /\ last'.sess = NoSession
          /\ UNCHANGED <<activeConnections, nextSession, owner, up, cb, listeners,
                         startResponse, statusCount>>]_vars

C13_Witness ==
    /\ last.op = "check"
    /\ last.username = ""
    /\ last.result = "400"
    /\ \E u \in Users : activeConnections[u] # NoSession

\* C14: the start-chat that builds a connection registers it and attaches
\* one listener for each of the eight events in the step that issues
\* connect(), when neither the connect callbacks nor any upstream event of
\* that connection has run; so every connection the upstream can emit on for
\* start-chat has all eight listeners.
C14_WiredBeforeConnectResolves ==
    /\ [][(last'.op = "start" /\ nextSession' # nextSession)
          => /\ activeConnections'[last'.username] = nextSession'
             /\ \A k \in EventKinds : listeners'[nextSession'][k] = 1
             /\ cb'[nextSession'] = "pending"
             /\ up'[nextSession'] = "connecting"
             /\ \A ty \in StatusTypes : statusCount'[nextSession'][ty] = 0]_vars
    /\ [](\A s \in Started : \A k \in EventKinds : listeners[s][k] = 1)

C14_Witness ==
    /\ last.op = "then"
    /\ \A k \in EventKinds : listeners[last.sess][k] = 1

TerminalTypes == {"error", "ended", "disconnected", "stopped"}

\* C15 (as claimed): the .catch, streamEnd and disconnected callbacks of a
\* connection remove a record only if the record holds that connection.
C15_LateNotificationSparesSuccessor ==
    [][\A u \in Users :
          (/\ last'.op \in {"catch", "streamEnd", "disconnected"}
           /\ activeConnections[u] # NoSession
           /\ activeConnections'[u] = NoSession)
          => activeConnections[u] = last'.sess]_vars

\* C16 (as claimed): a connection of start-chat that is connecting or
\* connected, with its listeners attached, is the record of its username, so
\* there is at most one such connection per username.
C16_OneWiredSessionPerIdentity ==
    \A s \in Started :
        (up[s] \in {"connecting", "connected"} /\ listeners[s]["chat"] > 0)
        => /\ activeConnections[owner[s]] = s
           /\ \A s2 \in Started :
                 (/\ owner[s2] = owner[s]
                  /\ up[s2] \in {"connecting", "connected"}
                  /\ listeners[s2]["chat"] > 0) => s2 = s

\* terminal status broadcasts made so far for s
RECURSIVE SumOver(_, _)
SumOver(f, S) ==
    IF S = {} THEN 0
    ELSE LET x == CHOOSE y \in S : TRUE IN f[x] + SumOver(f, S \ {x})

Terminals(s) == SumOver(statusCount[s], TerminalTypes)

\* C17 (as claimed): a connection of start-chat causes at most one terminal
\* status broadcast (error, ended, disconnected or stopped) in its lifetime.
C17_OneTerminalStatus ==
    \A s \in Started : Terminals(s) <= 1

\* C17 (amended): a connection of start-chat causes at most one terminal
\* status broadcast of each type: at most one error, one ended, one
\* disconnected and one stopped.
C17_OneTerminalStatusPerType ==
    \A s \in Started : \A ty \in TerminalTypes : statusCount[s][ty] <= 1

C17_Witness ==
    \E s \in Started :
        /\ statusCount[s]["ended"] = 1
        /\ statusCount[s]["disconnected"] = 1
        /\ Terminals(s) = 2

\* C18: the connection held by a record has had no connect failure, no
\* streamEnd and no disconnected handled and no stop completed: its .catch
\* has not run, the upstream has not closed or ended it, and no terminal
\* status was broadcast for it.
C18_RecordIsNotFinished ==
    \A u \in Users :
        activeConnections[u] # NoSession
        => LET s == activeConnections[u] IN
           /\ s \in Started
           /\ owner[s] = u
           /\ cb[s] # "catch"
           /\ up[s] \in {"connecting", "connected"}
           /\ Terminals(s) = 0

C18_Witness ==
    \E s, s2 \in Started :
        /\ owner[s] = owner[s2]
        /\ statusCount[s]["ended"] = 1
        /\ activeConnections[owner[s2]] = s2
        /\ cb[s2] = "then"

\* C19: a request or callback for identity A leaves the record of every other
\* identity as it was and calls disconnect() only on connections built for A;
\* it changes nothing of, and broadcasts nothing for, a connection built for
\* another identity.
C19_OtherIdentitiesUntouched ==
    [][/\ \A u \in Users : u # last'.username => activeConnections'[u] = activeConnections[u]
       /\ \A i \in DOMAIN last'.calls : owner'[last'.calls[i]] = last'.username
       /\ \A s \in Started \cup Checked :
             owner[s] # last'.username
             => /\ up'[s] = up[s]
                /\ cb'[s] = cb[s]
                /\ listeners'[s] = listeners[s]
                /\ statusCount'[s] = statusCount[s]]_vars

C19_Witness ==
    /\ last.op = "stop"
    /\ last.result = "stopped"
    /\ \E u \in Users : u # last.username /\ activeConnections[u] # NoSession

====
